---- MODULE Spec2Model ----
(***************************************************************************)
(* Model of the network measurement core of the browser perf logger:       *)
(* the session logger (ContextNetworkLogger), its page loggers             *)
(* (PageNetworkLogger) with the asynchronous request/response handlers and *)
(* the redirect walk, and the shared Measurer lifecycle (BaseMeasurer,     *)
(* NetworkMeasurer.collect).                                                *)
(*                                                                         *)
(* Scheduling: one event loop.  Every `await` in the source is a point at  *)
(* which another handler, or a call of close(), may run, so each piece of  *)
(* code between two awaits is one atomic step of the model.                *)
(***************************************************************************)
EXTENDS Integers, Sequences, FiniteSets, TLC

\* ---- bounds of the model ------------------------------------------------
MaxCalls == 2          \* record calls accepted at entry during one run
MaxResponses == 1      \* response events among them
MaxFrames == 1         \* websocket frames among them
MaxNavigations == 1    \* calls of addAutomationPageNavigation among them
MaxTime == 1           \* last value of the clock
MaxPageLoggers == 2    \* page loggers created by notePage
MaxListeners == 2      \* "close" listeners registered on the context
MaxPages == 2          \* pages open in the browser context
MaxRequested == 2      \* length of the list of requested measurement kinds

\* page identities
Pages == {1, 2}
\* request objects: request r was redirected from request r - 1, request 1
\* starts the chain
Requests == {1, 2, 3}
FinalRequest == CHOOSE r \in Requests : \A q \in Requests : q <= r
Measurers == {"network", "timing"}
FrameLengths == {2}

\* an unset optional field (endTime?, instrumentedAt?, closedAt?)
Undefined == -1

VARIABLES
  now,              \* the clock read by Date.now() / new Date()
  isClosed,         \* ContextNetworkLogger.#isClosed
  startTime,        \* ContextNetworkLogger.#startTime
  endTime,          \* ContextNetworkLogger.#endTime
  pageLoggers,      \* ContextNetworkLogger.#pageLoggers, each with its
                    \* #pageURL, #startTime, #requests, #responses
  pageToLoggerMap,  \* ContextNetworkLogger.#pageToLoggerMap (0: no entry)
  tasks,            \* suspended async calls (one record per pending call)
  calls,            \* the record calls accepted at entry, in issue order
  instrumentedAt,   \* BaseMeasurer.instrumentedAt, per measurer
  closedAt,         \* BaseMeasurer.closedAt, per measurer
  closedBy,         \* which method set closedAt ("none", "close", "collect")
  isContextClosed,  \* BaseMeasurer.isContextClosed, per measurer
  closeListeners,   \* context "close" listeners registered, per measurer
  contextPages,     \* context.pages(): the URL of each open page, in order
  timingTask,       \* the suspended TimingMeasurer.collect call, if any
  orch,             \* the run of measureURL: position, measurers, results
  held,             \* the report value a caller obtained last and still holds
  conf,             \* the run of runConfigForArgs: arguments, files, result
  out               \* the step just taken: operation, result, error lines

vars == <<now, isClosed, startTime, endTime, pageLoggers, pageToLoggerMap,
          tasks, calls, instrumentedAt, closedAt, closedBy,
          isContextClosed, closeListeners, contextPages, timingTask, orch,
          held, conf, out>>

loggerVars == <<isClosed, startTime, endTime, pageLoggers, pageToLoggerMap,
                tasks, calls>>
measurerVars == <<instrumentedAt, closedAt, closedBy, isContextClosed,
                  closeListeners>>
timingVars == <<contextPages, timingTask>>
restVars == <<timingVars, orch, held, conf>>

\* ---- the automation surface (inputs) ------------------------------------
\* request.redirectedFrom(): the request this one was redirected from, 0 (null)
\* for a request that starts a chain
redirectedFrom(r) == r - 1

\* request.url(); response.url() of the response to r is the same URL
urlOf(r) == r

\* (await request.sizes()).requestHeadersSize + requestBodySize
requestSize(r) == 100 + r

\* (await request.sizes()).responseHeadersSize + responseBodySize
responseSize(r) == 200 + r

\* the predecessors of r, nearest first: the chain walked from r
RECURSIVE chainOf(_)
chainOf(r) == IF redirectedFrom(r) = 0 THEN <<r>>
              ELSE <<r>> \o chainOf(redirectedFrom(r))

SeqToSet(s) == {s[i] : i \in 1..Len(s)}

\* ---- values --------------------------------------------------------------
NoVal == [none |-> TRUE]

Result(op, ret, errs, m, p, call, val) ==
  [op |-> op, ret |-> ret, errs |-> errs, m |-> m, p |-> p, call |-> call,
   val |-> val]

\* the datapoint built by PageNetworkLogger.addRequest
requestDatapoint(r, c) ==
  [size |-> requestSize(r), time |-> r, type |-> "http", url |-> urlOf(r),
   call |-> c]

\* the datapoint built by PageNetworkLogger.addResponse
responseDatapoint(r, c) ==
  [size |-> responseSize(r), time |-> r, type |-> "http", url |-> urlOf(r),
   call |-> c]

\* the datapoint built by addWebSocketRequest / addWebSocketResponse
webSocketDatapoint(len, c) ==
  [size |-> len, time |-> now, type |-> "websocket", url |-> 0, call |-> c]

\* a push that inserts at the head of the array (unshift)
pushFront(seq, dp) == <<dp>> \o seq

\* Array.prototype.push
push(seq, dp) == Append(seq, dp)

\* new PageNetworkLogger(owner, logger, pageURL)
newPageLogger(p) ==
  [url |-> p, startTime |-> now, requests |-> <<>>, responses |-> <<>>]

\* a request push that inserts the datapoint before the ones held
pushRequestFirst(pl, dp) ==
  [pageLoggers EXCEPT ![pl].requests = <<dp>> \o @]

pushRequest(pl, dp) ==
  [pageLoggers EXCEPT ![pl].requests = push(@, dp)]

pushResponse(pl, dp) ==
  [pageLoggers EXCEPT ![pl].responses = push(@, dp)]

\* PageNetworkLogger.toJSON
pageToJSON(l) ==
  [meta |-> [startTime |-> l.startTime, url |-> l.url],
   requests |-> l.requests, responses |-> l.responses]

\* ContextNetworkLogger.toJSON
toJSON ==
  [meta |-> [startTime |-> startTime, endTime |-> endTime],
   pages |-> [i \in 1..Len(pageLoggers) |-> pageToJSON(pageLoggers[i])]]

\* a closed check that never rejects
logErrorIfClosedNever == FALSE

\* PageNetworkLogger.logErrorIfClosed: TRUE (and one error line) when closed
logErrorIfClosed == isClosed

Task(c, top, pl, req, resp, pc, rejected) ==
  [id |-> c, top |-> top, pl |-> pl, req |-> req, resp |-> resp, pc |-> pc,
   rejected |-> rejected]

\* no TimingMeasurer.collect call is in progress
NoTask == [pc |-> "idle", pages |-> <<>>, i |-> 0, data |-> <<>>]

\* no report value is held by a caller
NoReport == [from |-> "none", refs |-> <<>>, snapshot |-> NoVal]

\* measureURL has not been called
NoRun ==
  [pc |-> "idle", requested |-> <<>>, instances |-> <<>>,
   measurers |-> [m \in Measurers |-> 0], order |-> <<>>,
   results |-> [m \in Measurers |-> "absent"], page |-> FALSE,
   settled |-> FALSE, k |-> 0, contextClosed |-> FALSE,
   closedAtCall |-> FALSE]

Init ==
  /\ now = 0
  /\ isClosed = FALSE
  /\ startTime = 0
  /\ endTime = Undefined
  /\ pageLoggers = <<>>
  /\ pageToLoggerMap = [p \in Pages |-> 0]
  /\ tasks = {}
  /\ calls = <<>>
  /\ instrumentedAt = [m \in Measurers |-> 0]
  /\ closedAt = [m \in Measurers |-> Undefined]
  /\ closedBy = [m \in Measurers |-> "none"]
  /\ isContextClosed = [m \in Measurers |-> FALSE]
  /\ closeListeners = [m \in Measurers |-> 1]
  /\ contextPages = <<>>
  /\ timingTask = NoTask
  /\ orch = NoRun
  /\ held = NoReport
  /\ conf = [args |-> NoVal, fs |-> NoVal, result |-> NoVal]
  /\ out = Result("new", "undefined", 0,
                  "", 0, 0, NoVal)

\* time passes
Tick ==
  /\ now < MaxTime
  /\ now' = now + 1
  /\ out' = Result("tick", "undefined", 0,
                   "", 0, 0, NoVal)
  /\ UNCHANGED <<loggerVars, measurerVars, restVars>>

\* a close that opens a closed session again
closeReopens ==
  /\ IF isClosed
       THEN /\ isClosed' = FALSE
            /\ endTime' = Undefined
            /\ out' = Result("close", "true", 0, "", 0, 0, NoVal)
       ELSE /\ endTime' = now
            /\ isClosed' = TRUE
            /\ out' = Result("close", "true", 0, "", 0, 0, NoVal)
  /\ UNCHANGED <<now, startTime, pageLoggers, pageToLoggerMap, tasks,
                 calls, measurerVars, restVars>>

\* a close that sets the closed flag and leaves the closing time unset
closeUnstamped ==
  /\ IF isClosed
       THEN /\ out' = Result("close", "false", 1, "", 0, 0, NoVal)
            /\ UNCHANGED <<isClosed, endTime>>
       ELSE /\ isClosed' = TRUE
            /\ out' = Result("close", "true", 0, "", 0, 0, NoVal)
            /\ UNCHANGED endTime
  /\ UNCHANGED <<now, startTime, pageLoggers, pageToLoggerMap, tasks,
                 calls, measurerVars, restVars>>

\* a close without its isClosed guard
closeAgain ==
  /\ endTime' = now
  /\ isClosed' = TRUE
  /\ out' = Result("close", "true", 0, "", 0, 0, NoVal)
  /\ UNCHANGED <<now, startTime, pageLoggers, pageToLoggerMap, tasks,
                 calls, measurerVars, restVars>>

\* ContextNetworkLogger.close
close ==
  /\ IF isClosed
       THEN /\ out' = Result("close", "false", 1,
                             "", 0, 0, NoVal)
            /\ UNCHANGED <<isClosed, endTime>>
       ELSE /\ endTime' = now
            /\ isClosed' = TRUE
            /\ out' = Result("close", "true", 0,
                             "", 0, 0, NoVal)
  /\ UNCHANGED <<now, startTime, pageLoggers, pageToLoggerMap, tasks,
                 calls, measurerVars, restVars>>

\* a notePage that reuses the page logger of a page it already knows
notePageOnce(p) ==
  /\ IF isClosed
       THEN /\ out' = Result("notePage", "null", 1,
                             "", p, 0, NoVal)
            /\ UNCHANGED <<pageLoggers, pageToLoggerMap>>
       ELSE IF pageToLoggerMap[p] # 0
       THEN /\ out' = Result("notePage", "pageLogger", 0,
                             "", p, 0, NoVal)
            /\ UNCHANGED <<pageLoggers, pageToLoggerMap>>
       ELSE /\ Len(pageLoggers) < MaxPageLoggers
            /\ pageLoggers' = push(pageLoggers, newPageLogger(p))
            /\ pageToLoggerMap' =
                 [pageToLoggerMap EXCEPT ![p] = Len(pageLoggers) + 1]
            /\ out' = Result("notePage", "pageLogger", 0,
                             "", p, 0, NoVal)
  /\ UNCHANGED <<now, isClosed, startTime, endTime, tasks, calls,
                 measurerVars, restVars>>

\* ContextNetworkLogger.notePage, called by NetworkMeasurer.#instrumentPage
notePage(p) ==
  /\ IF isClosed
       THEN /\ out' = Result("notePage", "null", 1,
                             "", p, 0, NoVal)
            /\ UNCHANGED <<pageLoggers, pageToLoggerMap>>
       ELSE /\ Len(pageLoggers) < MaxPageLoggers
            /\ pageLoggers' = push(pageLoggers, newPageLogger(p))
            /\ pageToLoggerMap' =
                 [pageToLoggerMap EXCEPT ![p] = Len(pageLoggers) + 1]
            /\ out' = Result("notePage", "pageLogger", 0,
                             "", p, 0, NoVal)
  /\ UNCHANGED <<now, isClosed, startTime, endTime, tasks, calls,
                 measurerVars, restVars>>

\* the call a handler is about to accept, and its number
newCall(top, pl, r) == [top |-> top, pl |-> pl, req |-> r]
nextCall == Len(calls) + 1

\* the model accepts one more call of the kinds `tops`, at most `max` of them
mayAccept(tops, max) ==
  /\ nextCall <= MaxCalls
  /\ Cardinality({c \in 1..Len(calls) : calls[c].top \in tops}) < max

\* ContextNetworkLogger.addWSRequest -> PageNetworkLogger.addWebSocketRequest
addWSRequest(p, len) ==
  LET pl == pageToLoggerMap[p]
      dp == webSocketDatapoint(len, nextCall) IN
  /\ IF pl = 0
       THEN /\ out' = Result("addWSRequest", "throw", 0,
                             "", 0, 0, NoVal)
            /\ UNCHANGED <<pageLoggers, calls>>
       ELSE IF logErrorIfClosed
       THEN /\ out' = Result("addWSRequest", "null", 1,
                             "", 0, 0, NoVal)
            /\ UNCHANGED <<pageLoggers, calls>>
       ELSE /\ mayAccept({"wsRequest", "wsResponse"}, MaxFrames)
            /\ pageLoggers' = pushRequest(pl, dp)
            /\ calls' = Append(calls, newCall("wsRequest", pl, 0))
            /\ out' = Result("addWSRequest", "datapoint", 0,
                             "", 0, nextCall, dp)
  /\ UNCHANGED <<now, isClosed, startTime, endTime, pageToLoggerMap, tasks,
                 measurerVars, restVars>>

\* a "framereceived" handler that records the frame with addWebSocketRequest
addWSResponseAsRequest(p, len) ==
  LET pl == pageToLoggerMap[p]
      dp == webSocketDatapoint(len, nextCall) IN
  /\ IF pl = 0
       THEN /\ out' = Result("addWSResponse", "throw", 0,
                             "", 0, 0, NoVal)
            /\ UNCHANGED <<pageLoggers, calls>>
       ELSE IF logErrorIfClosed
       THEN /\ out' = Result("addWSResponse", "null", 1,
                             "", 0, 0, NoVal)
            /\ UNCHANGED <<pageLoggers, calls>>
       ELSE /\ mayAccept({"wsRequest", "wsResponse"}, MaxFrames)
            /\ pageLoggers' = pushRequest(pl, dp)
            /\ calls' = Append(calls, newCall("wsResponse", pl, 0))
            /\ out' = Result("addWSResponse", "datapoint", 0,
                             "", 0, nextCall, dp)
  /\ UNCHANGED <<now, isClosed, startTime, endTime, pageToLoggerMap, tasks,
                 measurerVars, restVars>>

\* ContextNetworkLogger.addWSResponse -> PageNetworkLogger.addWebSocketResponse
addWSResponse(p, len) ==
  LET pl == pageToLoggerMap[p]
      dp == webSocketDatapoint(len, nextCall) IN
  /\ IF pl = 0
       THEN /\ out' = Result("addWSResponse", "throw", 0,
                             "", 0, 0, NoVal)
            /\ UNCHANGED <<pageLoggers, calls>>
       ELSE IF logErrorIfClosed
       THEN /\ out' = Result("addWSResponse", "null", 1,
                             "", 0, 0, NoVal)
            /\ UNCHANGED <<pageLoggers, calls>>
       ELSE /\ mayAccept({"wsRequest", "wsResponse"}, MaxFrames)
            /\ pageLoggers' = pushResponse(pl, dp)
            /\ calls' = Append(calls, newCall("wsResponse", pl, 0))
            /\ out' = Result("addWSResponse", "datapoint", 0,
                             "", 0, nextCall, dp)
  /\ UNCHANGED <<now, isClosed, startTime, endTime, pageToLoggerMap, tasks,
                 measurerVars, restVars>>

\* ContextNetworkLogger.addRequest -> PageNetworkLogger.addRequest, up to
\* `await request.sizes()`
addRequest(p, r) ==
  LET pl == pageToLoggerMap[p] IN
  /\ IF pl = 0
       THEN /\ out' = Result("addRequest", "throw", 0,
                             "", 0, 0, NoVal)
            /\ UNCHANGED <<tasks, calls>>
       ELSE IF logErrorIfClosed
       THEN /\ out' = Result("addRequest", "null", 1,
                             "", 0, 0, NoVal)
            /\ UNCHANGED <<tasks, calls>>
       ELSE /\ mayAccept({"request"}, MaxCalls)
            /\ tasks' = tasks \cup
                 {Task(nextCall, "request", pl, r, 0, "req.sizes", FALSE)}
            /\ calls' = Append(calls, newCall("request", pl, r))
            /\ out' = Result("addRequest", "pending", 0,
                             "", 0, nextCall, NoVal)
  /\ UNCHANGED <<now, isClosed, startTime, endTime, pageLoggers,
                 pageToLoggerMap, measurerVars, restVars>>

\* ContextNetworkLogger.addResponse -> PageNetworkLogger.addResponse, up to
\* `await request.sizes()`; r is response.request()
addResponse(p, r) ==
  LET pl == pageToLoggerMap[p] IN
  /\ IF pl = 0
       THEN /\ out' = Result("addResponse", "throw", 0,
                             "", 0, 0, NoVal)
            /\ UNCHANGED <<tasks, calls>>
       ELSE IF logErrorIfClosed
       THEN /\ out' = Result("addResponse", "null", 1,
                             "", 0, 0, NoVal)
            /\ UNCHANGED <<tasks, calls>>
       ELSE /\ mayAccept({"response"}, MaxResponses)
            /\ tasks' = tasks \cup
                 {Task(nextCall, "response", pl, r, r, "resp.sizes", FALSE)}
            /\ calls' = Append(calls, newCall("response", pl, r))
            /\ out' = Result("addResponse", "pending", 0,
                             "", 0, nextCall, NoVal)
  /\ UNCHANGED <<now, isClosed, startTime, endTime, pageLoggers,
                 pageToLoggerMap, measurerVars, restVars>>

\* a lookup that falls back to the first page logger for an unknown page
navigationPageFallback(p) ==
  IF pageToLoggerMap[p] = 0 THEN 1 ELSE pageToLoggerMap[p]

\* `this.#pageToLoggerMap.get(page)` in addAutomationPageNavigation
navigationPage(p) == pageToLoggerMap[p]

\* ContextNetworkLogger.addAutomationPageNavigation, up to the first await
\* (inside pageMeasurements.addRequest(navRequest)); r is response.request()
addAutomationPageNavigation(p, r) ==
  LET pl == navigationPage(p)
      rejected == logErrorIfClosed IN
  /\ IF isClosed
       THEN /\ out' = Result("addAutomationPageNavigation", "null", 1,
                             "", p, 0, NoVal)
            /\ UNCHANGED <<tasks, calls>>
       ELSE IF pl = 0
       THEN /\ out' = Result("addAutomationPageNavigation", "null", 1,
                             "", p, 0, NoVal)
            /\ UNCHANGED <<tasks, calls>>
       ELSE /\ mayAccept({"nav"}, MaxNavigations)
            /\ tasks' = tasks \cup
                 {IF rejected
                    THEN Task(nextCall, "nav", pl, r, r, "req.ret", TRUE)
                    ELSE Task(nextCall, "nav", pl, r, r, "req.sizes", FALSE)}
            /\ calls' = Append(calls, newCall("nav", pl, r))
            /\ out' = Result("addAutomationPageNavigation", "pending",
                             IF rejected THEN 1 ELSE 0,
                             "", p, nextCall, NoVal)
  /\ UNCHANGED <<now, isClosed, startTime, endTime, pageLoggers,
                 pageToLoggerMap, measurerVars, restVars>>

\* ---- the redirect walk of PageNetworkLogger.addResponse -----------------
\* loop condition: `while (request.redirectedFrom())`
walkContinues(request) == redirectedFrom(request) # 0

\* an iteration that records the predecessor instead of the loop variable
walkRecordsPredecessor(request) == redirectedFrom(request)

\* the request an iteration records: `await this.addRequest(request)`
walkRecords(request) == request

\* a walk that never leaves the request it started with
walkStays(request) == request

\* the end of an iteration: `request = nextRequest`
walkAdvance(request) == redirectedFrom(request)

replaceTask(t, u) == (tasks \ {t}) \cup {u}

\* what the top-level call of t resolves to once addResponse has returned
returned(t) ==
  IF t.top = "response"
    THEN Result("addResponse.return", "datapoint", 0,
                "", 0, t.id, responseDatapoint(t.resp, t.id))
    ELSE Result("addAutomationPageNavigation.return", "undefined", 0,
                "", 0, t.id, [rejected |-> t.rejected])

\* a walk that calls addRequest for every hop without awaiting it and returns
walkDetached(t, request) ==
  /\ tasks' = (tasks \ {t}) \cup
       {[t EXCEPT !.req = r, !.pc = "walk.sizes"] :
          r \in {q \in SeqToSet(chainOf(request)) :
                   walkContinues(q) /\ ~logErrorIfClosed}}
  /\ out' = returned(t)

\* the loop test with `request` as loop variable, then either the synchronous
\* part of the next addRequest (its closed check) or the return of addResponse
walk(t, request) ==
  IF walkContinues(request)
    THEN IF logErrorIfClosed
      THEN /\ tasks' = replaceTask(t, [t EXCEPT !.req = request,
                                     !.pc = "walk.ret", !.rejected = TRUE])
           /\ out' = Result("walk", "null", 1,
                            "", 0, t.id, NoVal)
      ELSE /\ tasks' = replaceTask(t, [t EXCEPT !.req = request,
                                     !.pc = "walk.sizes"])
           /\ out' = Result("walk", "pending", 0,
                            "", 0, t.id, NoVal)
    ELSE /\ tasks' = tasks \ {t}
         /\ out' = returned(t)

\* PageNetworkLogger.addRequest resumes after `await request.sizes()`
requestSizesResolved(t) ==
  LET dp == requestDatapoint(t.req, t.id) IN
  /\ t.pc = "req.sizes"
  /\ pageLoggers' = pushRequest(t.pl, dp)
  /\ IF t.top = "request"
       THEN /\ tasks' = tasks \ {t}
            /\ out' = Result("addRequest.return", "datapoint", 0,
                             "", 0, t.id, dp)
       ELSE /\ tasks' = replaceTask(t, [t EXCEPT !.pc = "req.ret"])
            /\ out' = Result("addRequest.return", "pending", 0,
                             "", 0, t.id, dp)
  /\ UNCHANGED <<now, isClosed, startTime, endTime, pageToLoggerMap, calls,
                 measurerVars, restVars>>

\* addAutomationPageNavigation resumes after `await addRequest(navRequest)`
\* and calls pageMeasurements.addResponse(response), up to its first await
navigationAddsResponse(t) ==
  /\ t.pc = "req.ret"
  /\ IF logErrorIfClosed
       THEN /\ tasks' = tasks \ {t}
            /\ out' = [returned([t EXCEPT !.rejected = TRUE])
                         EXCEPT !.errs = 1]
       ELSE /\ tasks' = replaceTask(t, [t EXCEPT !.pc = "resp.sizes"])
            /\ out' = Result("addResponse", "pending", 0,
                             "", 0, t.id, NoVal)
  /\ UNCHANGED <<now, isClosed, startTime, endTime, pageLoggers,
                 pageToLoggerMap, calls, measurerVars, restVars>>

\* PageNetworkLogger.addResponse resumes after `await request.sizes()`:
\* pushes the response datapoint and enters the redirect walk
responseSizesResolved(t) ==
  /\ t.pc = "resp.sizes"
  /\ pageLoggers' = pushResponse(t.pl, responseDatapoint(t.resp, t.id))
  /\ walk(t, t.resp)
  /\ UNCHANGED <<now, isClosed, startTime, endTime, pageToLoggerMap, calls,
                 measurerVars, restVars>>

\* a walk whose addRequest leaves out a request that the page logger holds
walkSizesResolvedOnce(t) ==
  LET dp == requestDatapoint(walkRecords(t.req), t.id)
      known == {pageLoggers[t.pl].requests[i].url :
                 i \in 1..Len(pageLoggers[t.pl].requests)}
  IN
  /\ t.pc = "walk.sizes"
  /\ pageLoggers' = IF dp.url \in known THEN pageLoggers
                    ELSE pushRequest(t.pl, dp)
  /\ tasks' = replaceTask(t, [t EXCEPT !.pc = "walk.ret"])
  /\ out' = Result("walk.addRequest.return", "pending", 0,
                   "", 0, t.id, dp)
  /\ UNCHANGED <<now, isClosed, startTime, endTime, pageToLoggerMap, calls,
                 measurerVars, restVars>>

\* the addRequest called by the walk resumes after `await request.sizes()`
walkSizesResolved(t) ==
  LET dp == requestDatapoint(walkRecords(t.req), t.id) IN
  /\ t.pc = "walk.sizes"
  /\ pageLoggers' = pushRequest(t.pl, dp)
  /\ tasks' = replaceTask(t, [t EXCEPT !.pc = "walk.ret"])
  /\ out' = Result("walk.addRequest.return", "pending", 0,
                   "", 0, t.id, dp)
  /\ UNCHANGED <<now, isClosed, startTime, endTime, pageToLoggerMap, calls,
                 measurerVars, restVars>>

\* addResponse resumes after `await this.addRequest(request)`, advances the
\* loop variable and tests the loop condition again
walkResumes(t) ==
  /\ t.pc = "walk.ret"
  /\ walk(t, walkAdvance(t.req))
  /\ UNCHANGED <<now, isClosed, startTime, endTime, pageLoggers,
                 pageToLoggerMap, calls, measurerVars, restVars>>

\* ---- BaseMeasurer and NetworkMeasurer ------------------------------------
\* an instrument without its instrumentedAt guard
instrumentAgain(m) ==
  /\ closeListeners[m] < MaxListeners
  /\ closeListeners' = [closeListeners EXCEPT ![m] = @ + 1]
  /\ instrumentedAt' = [instrumentedAt EXCEPT ![m] = now]
  /\ out' = Result("instrument", "undefined", 0, m, 0, 0, NoVal)
  /\ UNCHANGED <<now, loggerVars, restVars, closedAt, closedBy, isContextClosed>>

\* BaseMeasurer.instrument: the listener is registered before the guard
instrument(m) ==
  /\ closeListeners[m] < MaxListeners
  /\ closeListeners' = [closeListeners EXCEPT ![m] = @ + 1]
  /\ IF instrumentedAt[m] # Undefined
       THEN /\ out' = Result("instrument", "throw", 0,
                             m, 0, 0, NoVal)
            /\ UNCHANGED instrumentedAt
       ELSE /\ instrumentedAt' = [instrumentedAt EXCEPT ![m] = now]
            /\ out' = Result("instrument", "undefined", 0,
                             m, 0, 0, NoVal)
  /\ UNCHANGED <<now, loggerVars, restVars, closedAt, closedBy, isContextClosed>>

\* BaseMeasurer.closeIfOpen: the new closedAt
closeIfOpen(m) == IF closedAt[m] # Undefined THEN closedAt[m] ELSE now

\* a close without its closedAt guard
measurerCloseAgain(m) ==
  /\ closedAt' = [closedAt EXCEPT ![m] = now]
  /\ closedBy' = [closedBy EXCEPT ![m] = "close"]
  /\ out' = Result("measurer.close", "true", 0, m, 0, 0, NoVal)
  /\ UNCHANGED <<now, loggerVars, restVars, instrumentedAt, isContextClosed,
                 closeListeners>>

\* BaseMeasurer.close
measurerClose(m) ==
  /\ IF closedAt[m] # Undefined
       THEN /\ out' = Result("measurer.close", "false", 1,
                             m, 0, 0, NoVal)
            /\ UNCHANGED <<closedAt, closedBy>>
       ELSE /\ closedAt' = [closedAt EXCEPT ![m] = closeIfOpen(m)]
            /\ closedBy' = [closedBy EXCEPT ![m] = "close"]
            /\ out' = Result("measurer.close", "true", 0,
                             m, 0, 0, NoVal)
  /\ UNCHANGED <<now, loggerVars, restVars, instrumentedAt, isContextClosed,
                 closeListeners>>

\* NetworkMeasurer.collect
collect ==
  /\ closedAt' = [closedAt EXCEPT !["network"] = closeIfOpen("network")]
  /\ closedBy' = [closedBy EXCEPT !["network"] =
                    IF closedAt["network"] # Undefined THEN @ ELSE "collect"]
  /\ out' = Result("collect", "result", 0,
                   "network", 0, 0, [type |-> "network", data |-> toJSON])
  /\ UNCHANGED <<now, loggerVars, restVars, instrumentedAt, isContextClosed,
                 closeListeners>>

\* the browser context emits "close": every listener registered by
\* BaseMeasurer.instrument runs
contextClosed ==
  /\ isContextClosed' =
       [m \in Measurers |-> isContextClosed[m] \/ closeListeners[m] > 0]
  /\ out' = Result("context.close", "undefined", 0,
                   "", 0, 0, NoVal)
  /\ UNCHANGED <<now, loggerVars, restVars, instrumentedAt, closedAt, closedBy,
                 closeListeners>>

\* ---- TimingMeasurer ---------------------------------------------------------
\* page URLs, as the characters up to and after the scheme
AboutBlank == <<"a", "b", "o", "u", "t", ":", "b">>
HttpsX == <<"h", "t", "t", "p", "s", ":", "/", "/", "x">>
HttpY == <<"h", "t", "t", "p", ":", "/", "/", "y">>
DataURL == <<"d", "a", "t", "a", ":", ",">>
FileURL == <<"f", "i", "l", "e", ":", "/">>
\* a public page for which the browser never produces a
\* largest-contentful-paint entry (nothing contentful is painted, or the
\* engine does not support the entry type)
HttpZ == <<"h", "t", "t", "p", ":", "/", "/", "z">>
PageURLs == {AboutBlank, HttpsX, HttpY, HttpZ, DataURL, FileURL}

\* String.prototype.startsWith
startsWith(str, prefix) ==
  Len(str) >= Len(prefix) /\ SubSeq(str, 1, Len(prefix)) = prefix

\* a filter that accepts https pages only
isPublicHttpsOnly(pageURL) == startsWith(pageURL, <<"h", "t", "t", "p", "s">>)

\* the negation of `!pageURL.startsWith("http")`: the page is measured
isPublic(pageURL) == startsWith(pageURL, <<"h", "t", "t", "p">>)

\* what `await aPage.evaluate(injected_getPageMeasurements)` resolves to
pageResponse(pageURL) == [navigation |-> pageURL, lcp |-> pageURL]

\* the entry collect pushes for a page
timingData(pageURL) == [url |-> pageURL, data |-> pageResponse(pageURL)]

\* the loop of collect skips pages (`continue`) up to the next measured one;
\* 0 when the loop ends
RECURSIVE nextMeasured(_, _)
nextMeasured(pages, i) ==
  IF i > Len(pages) THEN 0
  ELSE IF isPublic(pages[i]) THEN i
  ELSE nextMeasured(pages, i + 1)

\* the loop of collect from page i on: suspends in evaluate for the next
\* measured page or returns the result
timingLoop(op, pages, i, data) ==
  LET j == nextMeasured(pages, i) IN
  IF j = 0
    THEN /\ timingTask' = NoTask
         /\ out' = Result(op, "result", 0, "timing", 0, 0,
                          [type |-> "timing", data |-> data])
    ELSE /\ timingTask' = [pc |-> "evaluate", pages |-> pages, i |-> j,
                           data |-> data]
         /\ out' = Result(op, "pending", 0, "timing", 0, 0, NoVal)

\* a closed-context check that never fires
timingContextClosedNever == FALSE

\* `if (this.isContextClosed)` in TimingMeasurer.collect
timingContextClosed == isContextClosed["timing"]

\* TimingMeasurer.collect, up to its first await
timingCollect ==
  /\ timingTask.pc = "idle"
  /\ IF timingContextClosed
       THEN /\ out' = Result("timing.collect", "null", 0,
                             "timing", 0, 0, NoVal)
            /\ UNCHANGED timingTask
       ELSE timingLoop("timing.collect", contextPages, 1, <<>>)
  /\ UNCHANGED <<now, loggerVars, measurerVars, contextPages, orch, held, conf>>

\* injected_getPageMeasurements resolves its promise in the callback of the
\* PerformanceObserver only: the callback runs when the page has a
\* largest-contentful-paint entry
observed(pageURL) == pageURL # HttpZ

\* collect resumes after `await aPage.evaluate(...)` resolved
evaluateResolved ==
  /\ timingTask.pc = "evaluate"
  /\ observed(timingTask.pages[timingTask.i])
  /\ timingLoop("timing.evaluate", timingTask.pages, timingTask.i + 1,
                push(timingTask.data,
                     timingData(timingTask.pages[timingTask.i])))
  /\ UNCHANGED <<now, loggerVars, measurerVars, contextPages, orch, held, conf>>

\* the page under evaluation is closed: evaluate rejects and collect throws
evaluateRejected ==
  /\ timingTask.pc = "evaluate"
  /\ contextPages' =
       [k \in 1..(Len(contextPages) - 1) |->
          IF k < timingTask.i THEN contextPages[k] ELSE contextPages[k + 1]]
  /\ timingTask' = NoTask
  /\ out' = Result("timing.evaluate", "throw", 0, "timing", 0, 0, NoVal)
  /\ UNCHANGED <<now, loggerVars, measurerVars, orch, held, conf>>

\* a page opens in the context (between two collect calls)
newPage(pageURL) ==
  /\ timingTask.pc = "idle"
  /\ ~isContextClosed["timing"]
  /\ Len(contextPages) < MaxPages
  /\ contextPages' = Append(contextPages, pageURL)
  /\ out' = Result("newPage", "undefined", 0, "", 0, 0, NoVal)
  /\ UNCHANGED <<now, loggerVars, measurerVars, timingTask, orch, held, conf>>

\* ---- measureURL -------------------------------------------------------------
\* the lists of measurement kinds measureURL may be called with
RECURSIVE ListsOf(_)
ListsOf(n) ==
  IF n = 0 THEN {<<>>}
  ELSE ListsOf(n - 1) \cup
       {Append(l, m) : l \in {x \in ListsOf(n - 1) : Len(x) = n - 1},
                       m \in Measurers}

\* a measurer that was constructed but never instrumented
constructedOnly(kind) ==
  [kind |-> kind, instrumented |-> FALSE, listeners |-> 0,
   subscribed |-> FALSE, closeCalls |-> 0, closed |-> FALSE,
   collectCalls |-> 0]

\* `new aMeasurerType(logger, url, context)` followed by
\* `aMeasurer.instrumentContext()`: the context "close" listener is
\* registered, instrumentedAt is set, and NetworkMeasurer subscribes to the
\* context's "page" event
constructed(kind) ==
  [kind |-> kind, instrumented |-> TRUE, listeners |-> 1,
   subscribed |-> (kind = "network"), closeCalls |-> 0, closed |-> FALSE,
   collectCalls |-> 0]

\* Map.prototype.set over the list: the value of a key is the last measurer
\* set for it (0: no entry)
lastIndexOf(list, m) ==
  IF \E k \in 1..Len(list) : list[k] = m
    THEN CHOOSE k \in 1..Len(list) :
           list[k] = m /\ \A j \in (k + 1)..Len(list) : list[j] # m
    ELSE 0

\* the iteration order of the Map: keys in the order they were first set
RECURSIVE insertionOrder(_)
insertionOrder(list) ==
  IF list = <<>> THEN <<>>
  ELSE LET init == SubSeq(list, 1, Len(list) - 1)
           rest == insertionOrder(init)
           last == list[Len(list)] IN
       IF \E k \in 1..Len(init) : init[k] = last THEN rest
       ELSE Append(rest, last)

\* the measurers the Map holds
heldInstances == {orch.measurers[m] : m \in Measurers} \ {0}

\* BaseMeasurer.close on one measurer
instanceClose(inst) ==
  [inst EXCEPT !.closeCalls = @ + 1, !.closed = TRUE]

\* collect() is called on the measurer: NetworkMeasurer.collect closes it if
\* it is open
instanceCollect(inst) ==
  [inst EXCEPT !.collectCalls = @ + 1,
               !.closed = @ \/ (inst.kind = "network")]

\* measureURL up to `await context.newPage()`: the loop that constructs and
\* instruments the requested measurers
measureURL(requested) ==
  /\ orch.pc = "idle"
  /\ orch' = [orch EXCEPT
       !.pc = "newPage",
       !.requested = requested,
       !.instances = [k \in 1..Len(requested) |-> constructed(requested[k])],
       !.measurers = [m \in Measurers |-> lastIndexOf(requested, m)],
       !.order = insertionOrder(requested)]
  /\ out' = Result("measureURL", "pending", 0, "", 0, 0, NoVal)
  /\ UNCHANGED <<now, loggerVars, measurerVars, timingVars, held, conf>>

\* context.newPage() resolved (on an open context); measureURL calls page.goto
newPageResolved ==
  /\ orch.pc = "newPage"
  /\ ~orch.contextClosed
  /\ orch' = [orch EXCEPT !.pc = "goto", !.page = TRUE]
  /\ out' = Result("context.newPage", "page", 0, "", 0, 0, NoVal)
  /\ UNCHANGED <<now, loggerVars, measurerVars, timingVars, held, conf>>

\* page.goto resolved with a response or with null; `assert(navRequest)`,
\* then the dwell wait starts
gotoResolved(navRequest) ==
  /\ orch.pc = "goto"
  /\ ~orch.contextClosed
  /\ IF navRequest = "null"
       THEN /\ orch' = [orch EXCEPT !.pc = "failed"]
            /\ out' = Result("page.goto", "throw", 0, "", 0, 0, NoVal)
       ELSE /\ orch' = [orch EXCEPT !.pc = "dwell"]
            /\ out' = Result("page.goto", "response", 0, "", 0, 0, NoVal)
  /\ UNCHANGED <<now, loggerVars, measurerVars, timingVars, held, conf>>

\* the promise measureURL awaits rejects (navigation fails or times out, the
\* page or the context is closed under a wait): measureURL rejects
awaitRejected ==
  /\ orch.pc \in {"newPage", "goto", "dwell", "settle", "contextClose"}
  /\ orch' = [orch EXCEPT !.pc = "failed"]
  /\ out' = Result("await", "throw", 0, "", 0, 0, NoVal)
  /\ UNCHANGED <<now, loggerVars, measurerVars, timingVars, held, conf>>

\* the dwell wait elapsed: close() on every measurer of the Map, then the
\* settle wait starts
dwellElapsed ==
  /\ orch.pc = "dwell"
  /\ ~orch.contextClosed
  /\ orch' = [orch EXCEPT
       !.pc = "settle",
       !.instances = [i \in 1..Len(orch.instances) |->
                        IF i \in heldInstances
                          THEN instanceClose(orch.instances[i])
                          ELSE orch.instances[i]]]
  /\ out' = Result("closeAll", "undefined", 0, "", 0, 0, NoVal)
  /\ UNCHANGED <<now, loggerVars, measurerVars, timingVars, held, conf>>

\* after the settle wait, or after a collect returned: the next iteration of
\* the loop over measurers.entries() calls collect, or, after the last one,
\* measureURL calls context.close()
collectNext(o, k) ==
  IF k > Len(o.order)
    THEN [o EXCEPT !.pc = "contextClose", !.k = 0]
    ELSE [o EXCEPT !.pc = "collect", !.k = k,
            !.closedAtCall = o.contextClosed,
            !.instances[o.measurers[o.order[k]]] = instanceCollect(@)]

\* the settle wait elapsed
settleElapsed ==
  /\ orch.pc = "settle"
  /\ ~orch.contextClosed
  /\ orch' = collectNext([orch EXCEPT !.settled = TRUE], 1)
  /\ out' = Result("settle", "undefined", 0, "", 0, 0, NoVal)
  /\ UNCHANGED <<now, loggerVars, measurerVars, timingVars, held, conf>>

\* the results collect() of a measurer of this kind can produce:
\* TimingMeasurer.collect returns null when the context was closed at the
\* call, and throws when an evaluation rejects
collectOutcomes(kind) ==
  IF kind = "network" THEN {"result"}
  ELSE IF orch.closedAtCall THEN {"null"}
  ELSE {"result", "throw"}

\* `results[aMeasurementType] = await aMeasurer.collect()`
collectReturned(outcome) ==
  /\ orch.pc = "collect"
  /\ outcome \in collectOutcomes(orch.order[orch.k])
  /\ IF outcome = "throw"
       THEN orch' = [orch EXCEPT !.pc = "failed"]
       ELSE orch' = collectNext(
              [orch EXCEPT !.results[orch.order[orch.k]] = outcome],
              orch.k + 1)
  /\ out' = Result("orch.collect", outcome, 0, orch.order[orch.k], 0, 0,
                   NoVal)
  /\ UNCHANGED <<now, loggerVars, measurerVars, timingVars, held, conf>>

\* `await context.close()` resolved; measureURL returns the report
contextCloseResolved ==
  /\ orch.pc = "contextClose"
  /\ orch' = [orch EXCEPT !.pc = "done", !.contextClosed = TRUE]
  /\ out' = Result("measureURL.return", "report", 0, "", 0, 0,
                   [measurements |-> orch.results])
  /\ UNCHANGED <<now, loggerVars, measurerVars, timingVars, held, conf>>

\* the browser context is closed from outside while measureURL runs
contextClosedExternally ==
  /\ orch.pc \notin {"idle", "done", "failed"}
  /\ ~orch.contextClosed
  /\ orch' = [orch EXCEPT !.contextClosed = TRUE]
  /\ out' = Result("context.close", "undefined", 0, "", 0, 0, NoVal)
  /\ UNCHANGED <<now, loggerVars, measurerVars, timingVars, held, conf>>

\* ---- reports ----------------------------------------------------------------
\* a toJSON that closes the session as a side effect
toJSONCallClosing ==
  /\ out' = Result("toJSON", "report", 0, "", 0, 0, toJSON)
  /\ isClosed' = TRUE
  /\ endTime' = IF isClosed THEN endTime ELSE now
  /\ UNCHANGED <<now, startTime, pageLoggers, pageToLoggerMap, tasks, calls,
                 measurerVars, restVars>>

\* a caller calls ContextNetworkLogger.toJSON
toJSONCall ==
  /\ out' = Result("toJSON", "report", 0, "", 0, 0, toJSON)
  /\ UNCHANGED <<now, loggerVars, measurerVars, restVars, conf>>

\* a caller calls PageNetworkLogger.toJSON on page logger pl
pageToJSONCall(pl) ==
  /\ pl \in 1..Len(pageLoggers)
  /\ out' = Result("page.toJSON", "report", 0, "", pl, 0,
                   pageToJSON(pageLoggers[pl]))
  /\ UNCHANGED <<now, loggerVars, measurerVars, restVars, conf>>

\* the session report in the value the step just taken returned
reportOf(result) ==
  IF result.op = "collect" THEN result.val.data ELSE result.val

\* the caller keeps the report just returned by toJSON or by collect: the
\* meta values and the pages array are new, the requests and responses of
\* page i are the arrays of page logger i themselves
hold ==
  /\ out.op \in {"toJSON", "collect"}
  /\ held' = [from |-> out.op,
              refs |-> [i \in 1..Len(reportOf(out).pages) |-> i],
              snapshot |-> reportOf(out)]
  /\ out' = Result("hold", "undefined", 0, "", 0, 0, NoVal)
  /\ UNCHANGED <<now, loggerVars, measurerVars, timingVars, orch, conf>>

\* what the held report value contains now
heldContents ==
  [held.snapshot EXCEPT !.pages =
     [i \in 1..Len(held.refs) |->
        [@[i] EXCEPT !.requests = pageLoggers[held.refs[i]].requests,
                     !.responses = pageLoggers[held.refs[i]].responses]]]

\* ---- runConfigForArgs ------------------------------------------------------
\* Strings that the code compares, trims or joins are tuples of characters.
\* An option that was not given has the value NoArg (undefined).
NoArg == <<"undefined">>
StringLiteral == <<"s", "t", "r", "i", "n", "g">>
DataPath == <<"/", "d">>
OutPath == <<"/", "o">>
BinPath == <<"/", "b">>
Blank == <<" ", " ">>
DefaultProfile == <<"D", "e", "f">>
HostX == <<"x", ".", "t">>

\* const validSchemes
validSchemes == {"http:", "https:"}

\* const attemptMax of makeResultFilename
attemptMax == 1000

\* a file system entry as stat() and access() see it; kind "none": no entry
Node(kind, r, w, x) == [kind |-> kind, r |-> r, w |-> w, x |-> x]
NoNode == Node("none", FALSE, FALSE, FALSE)

\* path.join: the segments in order, empty ones dropped
join(segments) == SelectSeq(segments, LAMBDA s : s # <<>>)

\* the file name makeResultFilename tries at one attempt
fileGuessOf(fileName, attempt) == <<fileName, attempt, ".json">>

\* stat() of a joined path in the file system fs: the entry at the
\* user-data-dir path, its profile subdirectory, the binary path, the output
\* path or one of the result files inside the output directory
stat(fs, path) ==
  IF Len(path) = 1
    THEN IF path[1] \in {StringLiteral, DataPath} THEN fs.data
         ELSE IF path[1] = BinPath THEN fs.binary
         ELSE IF path[1] = OutPath THEN fs.output
         ELSE NoNode
  ELSE IF Len(path) = 2 /\ path[1] \in {StringLiteral, DataPath}
    THEN IF fs.data.kind = "dir" /\ path[2] = DefaultProfile
           THEN fs.profile ELSE NoNode
  ELSE IF Len(path) = 2 /\ path[1] = OutPath /\ fs.output.kind = "dir"
    THEN LET a == path[2][2]
             kind == IF a < Len(fs.first) THEN fs.first[a + 1] ELSE fs.rest
         IN  IF kind = "none" THEN NoNode ELSE Node(kind, TRUE, TRUE, TRUE)
  ELSE NoNode

\* const _fileCheck: access() with a mode, false when it rejects
fileCheck(fs, mode, segments) ==
  LET n == stat(fs, join(segments))
  IN  /\ n.kind # "none"
      /\ ("R" \in mode => n.r)
      /\ ("W" \in mode => n.w)
      /\ ("X" \in mode => n.x)

isPathToDir(fs, segments) == stat(fs, join(segments)).kind = "dir"

isPathToReadableDir(fs, segments) ==
  IF ~isPathToDir(fs, segments) THEN FALSE
  ELSE fileCheck(fs, {"R"}, segments)

isPathToWriteableDir(fs, segments) ==
  IF ~isPathToDir(fs, segments) THEN FALSE
  ELSE fileCheck(fs, {"W", "X"}, segments)

isPathToFile(fs, segments) == stat(fs, join(segments)).kind = "file"

isPathToExecFile(fs, segments) == fileCheck(fs, {"X"}, segments)

isPathToWritableFile(fs, segments) ==
  IF ~isPathToFile(fs, segments) THEN FALSE
  ELSE fileCheck(fs, {"W"}, segments)

\* String.prototype.trim on the blanks of the model
RECURSIVE trimStart(_)
trimStart(s) ==
  IF s # <<>> /\ Head(s) = " " THEN trimStart(Tail(s)) ELSE s

RECURSIVE trimEnd(_)
trimEnd(s) ==
  IF s # <<>> /\ s[Len(s)] = " " THEN trimEnd(SubSeq(s, 1, Len(s) - 1))
  ELSE s

trim(s) == trimEnd(trimStart(s))

\* url.hostname.replace(/[^a-z0-9.\-_]/gi, "_").toLowerCase() on the
\* characters of the model's host names (none is upper case)
SafeChars == {"x", "t", "1", ".", "-", "_"}
sanitised(hostname) ==
  [i \in 1..Len(hostname) |->
     IF hostname[i] \in SafeChars THEN hostname[i] ELSE "_"]

\* the value a function returned or the error it threw
Returned(value) == [ret |-> "return", error |-> "", value |-> value]
Thrown(error) == [ret |-> "throw", error |-> error, value |-> NoVal]

\* a makeResultFilename that does not look for existing files
makeResultFilenameFirst(fs, dir, url) ==
  Returned(join(<<dir, fileGuessOf(sanitised(url.hostname), 0)>>))

\* makeResultFilename: the name of the first attempt below attemptMax that is
\* not an existing file, or the error thrown after the last attempt
makeResultFilename(fs, dir, url) ==
  LET fileName == sanitised(url.hostname)
      notFiles == {attempt \in 0..(attemptMax - 1) :
                     ~isPathToFile(fs, <<dir, fileGuessOf(fileName, attempt)>>)}
      first == CHOOSE attempt \in notFiles :
                 \A a \in 0..(attempt - 1) :
                    isPathToFile(fs, <<dir, fileGuessOf(fileName, a)>>)
  IN  IF notFiles # {}
        THEN Returned(join(<<dir, fileGuessOf(fileName, first)>>))
        ELSE Thrown("Unable to generate a file to write to")

\* fs.open(path, "w") followed by createWriteStream: a stream on the path,
\* or the rejection of open for a path that is a directory
openForWriting(fs, path) ==
  IF stat(fs, path).kind = "dir" THEN Thrown("open")
  ELSE Returned([stream |-> "file", path |-> path])

\* handleForResults
handleForResults(fs, output, url) ==
  IF output = NoArg \/ Len(trim(output)) = 0
    THEN Returned([stream |-> "stdout", path |-> <<>>])
  ELSE IF isPathToFile(fs, <<output>>)
    THEN IF ~isPathToWritableFile(fs, <<output>>)
           THEN Thrown("--output path is not writeable")
           ELSE openForWriting(fs, join(<<output>>))
  ELSE IF isPathToDir(fs, <<output>>)
    THEN IF ~isPathToWriteableDir(fs, <<output>>)
           THEN Thrown("--output directory is not writeable")
           ELSE LET resultPath == makeResultFilename(fs, output, url)
                IN  IF resultPath.ret = "throw" THEN resultPath
                    ELSE openForWriting(fs, resultPath.value)
  ELSE openForWriting(fs, join(<<output>>))


\* BrowserType
BrowserTypes == {"brave", "chromium", "gecko", "webkit"}
TempPath == <<"/", "t">>
PlaywrightPath == <<"/", "p">>

\* runConfigForArgs, from the user-data-dir cases on: isChromium and the
\* validated user-data-dir and profile are decided
runConfigForDataDir(args, fs, validatedUserDataDir, validatedProfile) ==
  LET binaryPath ==
        IF args.binary_path = NoArg
          THEN IF args.browser = "brave"
                 THEN Thrown("Must include a binary path")
                 ELSE Returned(PlaywrightPath)
          ELSE IF args.browser \in {"brave", "chromium"}
                 THEN IF ~isPathToExecFile(fs, <<args.binary_path>>)
                        THEN Thrown("Invalid binary path")
                        ELSE Returned(args.binary_path)
                 ELSE Thrown("Invalid binary path")
      outputHandle == handleForResults(fs, args.output, args.url)
  IN  IF binaryPath.ret = "throw" THEN binaryPath
      ELSE IF args.height <= 0 \/ args.width <= 0
        THEN Thrown("The height and width must be positive")
      ELSE IF args.timeout <= 0
        THEN Thrown("The --timeout argument must be positive")
      ELSE IF args.timeout > 500
        THEN Thrown("very high value for seconds")
      ELSE IF \E i \in 1..Len(args.measurements) :
                args.measurements[i] \notin Measurers
        THEN Thrown("AssertionError")
      ELSE IF outputHandle.ret = "throw" THEN outputHandle
      ELSE Returned([binary |-> binaryPath.value,
                     browser |-> args.browser,
                     measurements |-> args.measurements,
                     output |-> outputHandle.value,
                     profile |-> validatedProfile,
                     seconds |-> args.seconds,
                     timeout |-> args.timeout,
                     userDataDir |-> validatedUserDataDir])

\* JavaScript's `!value` for an optional string
isFalsy(s) == s = NoArg \/ s = <<>>

\* runConfigForArgs
runConfigForArgs(args, fs) ==
  LET isChromium == args.browser \in {"chromium", "brave"}
      userDataDir == args.userDataDir
      isReadable == ~isFalsy(userDataDir)
                      /\ isPathToReadableDir(fs, <<userDataDir>>)
      isUserDataDirExisting == isReadable
      isProfileReadable ==
        isReadable /\ isPathToReadableDir(fs, <<userDataDir, args.profile>>)
      isCaseOne == isFalsy(userDataDir)
      isCaseTwo == ~isCaseOne /\ ~isUserDataDirExisting
      isCaseThree ==
        ~isCaseOne /\ ~isCaseTwo /\ ~isChromium /\ isUserDataDirExisting
      isCaseFour ==
        /\ ~isCaseOne /\ ~isCaseTwo /\ ~isCaseThree
        /\ isChromium /\ isUserDataDirExisting /\ isProfileReadable
  IN  IF args.url.protocol \notin validSchemes
        THEN Thrown("Invalid URL")
      ELSE IF args.url.hostname = <<>>
        THEN Thrown("Invalid URL")
      ELSE IF args.seconds <= 0
        THEN Thrown("Invalid seconds")
      ELSE IF ~(userDataDir = NoArg \/ userDataDir = StringLiteral)
        THEN Thrown("AssertionError")
      ELSE IF ~isFalsy(args.profile) /\ ~isChromium
        THEN Thrown("Invalid profile")
      ELSE IF isCaseOne
        THEN runConfigForDataDir(args, fs, TempPath, NoArg)
      ELSE IF isCaseTwo \/ isCaseThree
        THEN runConfigForDataDir(args, fs, userDataDir, NoArg)
      ELSE IF isCaseFour
        THEN runConfigForDataDir(args, fs,
                                 join(<<userDataDir, args.profile>>),
                                 args.profile)
      ELSE Thrown("Invalid user-data-dir config")

\* the Namespace values of the model. argparse stores --user-data-dir and
\* --binary-path under user_data_dir and binary_path; userDataDir is the
\* property runConfigForArgs reads. An output path is given with every
\* browser and profile, the other arguments being valid.
URLs == {[protocol |-> "https:", hostname |-> HostX],
         [protocol |-> "file:", hostname |-> <<>>]}
DataDirArgs ==
  {[user_data_dir |-> NoArg, userDataDir |-> NoArg],
   [user_data_dir |-> DataPath, userDataDir |-> NoArg],
   [user_data_dir |-> NoArg, userDataDir |-> StringLiteral],
   [user_data_dir |-> NoArg, userDataDir |-> DataPath]}
ArgumentSets ==
  {[url |-> u, seconds |-> s, browser |-> b, profile |-> p,
    user_data_dir |-> d.user_data_dir, userDataDir |-> d.userDataDir,
    binary_path |-> x, height |-> 1024, width |-> 1280, timeout |-> 30,
    measurements |-> m, output |-> o] :
     u \in URLs, s \in {0, 30}, b \in BrowserTypes,
     p \in {DefaultProfile, <<>>}, d \in DataDirArgs, x \in {NoArg, BinPath},
     m \in {<<"network", "timing">>, <<"n", "e", "t">>},
     o \in {NoArg, Blank, OutPath}}
Namespaces ==
  {args \in ArgumentSets :
     args.output # NoArg =>
       /\ args.url.protocol = "https:"
       /\ args.seconds = 30
       /\ args.measurements = <<"network", "timing">>
       /\ args.user_data_dir = NoArg
       /\ args.userDataDir = NoArg
       /\ args.binary_path = NoArg}

\* the file systems of the model: the entry at the user-data-dir path and
\* its profile subdirectory, at the binary path and at the output path, and
\* the result files of the output directory (the first ones by attempt, and
\* all others)
DataNodes ==
  {[data |-> NoNode, profile |-> NoNode],
   [data |-> Node("file", TRUE, TRUE, FALSE), profile |-> NoNode],
   [data |-> Node("dir", FALSE, FALSE, FALSE), profile |-> NoNode],
   [data |-> Node("dir", TRUE, TRUE, TRUE), profile |-> NoNode],
   [data |-> Node("dir", TRUE, TRUE, TRUE),
    profile |-> Node("dir", TRUE, TRUE, TRUE)]}
OutputNodes ==
  {[output |-> NoNode, first |-> <<>>, rest |-> "none"],
   [output |-> Node("file", TRUE, TRUE, FALSE), first |-> <<>>,
    rest |-> "none"],
   [output |-> Node("file", TRUE, FALSE, FALSE), first |-> <<>>,
    rest |-> "none"],
   [output |-> Node("dir", TRUE, FALSE, TRUE), first |-> <<>>,
    rest |-> "none"]}
  \cup {[output |-> Node("dir", TRUE, TRUE, TRUE), first |-> e.first,
         rest |-> e.rest] :
          e \in {[first |-> <<>>, rest |-> "none"],
                 [first |-> <<"file">>, rest |-> "none"],
                 [first |-> <<"file", "dir">>, rest |-> "none"],
                 [first |-> <<>>, rest |-> "file"]}}
FileSystems ==
  {[data |-> d.data, profile |-> d.profile, binary |-> b,
    output |-> o.output, first |-> o.first, rest |-> o.rest] :
     d \in DataNodes,
     b \in {Node("file", TRUE, FALSE, TRUE), Node("file", TRUE, FALSE, FALSE)},
     o \in OutputNodes}

\* the file systems that differ only at the paths the arguments name
FileSystemsFor(args) ==
  {fs \in FileSystems :
     /\ (args.userDataDir = NoArg /\ args.user_data_dir = NoArg) =>
          fs.data = NoNode
     /\ args.binary_path = NoArg => fs.binary.x
     /\ args.output # OutPath => fs.output = NoNode}

NoConf == [args |-> NoVal, fs |-> NoVal, result |-> NoVal]

\* cli.js: the parsed arguments are handed to runConfigForArgs once
cli(args, fs) ==
  /\ conf = NoConf
  /\ conf' = [args |-> args, fs |-> fs,
              result |-> runConfigForArgs(args, fs)]
  /\ out' = Result("runConfigForArgs", conf'.result.ret,
                   IF conf'.result.ret = "throw" THEN 1 ELSE 0,
                   "", 0, 0, NoVal)
  /\ UNCHANGED <<now, loggerVars, measurerVars, timingVars, orch, held>>

\* ---- specifications ------------------------------------------------------
\* the session logger driven by the page events NetworkMeasurer subscribes to
\* (page, request, response, websocket frames) and by close()
Next ==
  \/ close
  \/ \E p \in Pages : notePage(p)
  \/ \E p \in Pages, len \in FrameLengths : addWSRequest(p, len)
  \/ \E p \in Pages, len \in FrameLengths : addWSResponse(p, len)
  \/ \E p \in Pages, r \in Requests : addRequest(p, r)
  \/ \E p \in Pages, r \in Requests : addResponse(p, r)
  \/ \E t \in tasks : requestSizesResolved(t)
  \/ \E t \in tasks : responseSizesResolved(t)
  \/ \E t \in tasks : walkSizesResolved(t)
  \/ \E t \in tasks : walkResumes(t)

Spec == Init /\ [][Next]_vars

\* the session logger driven by addAutomationPageNavigation and close()
NavNext ==
  \/ close
  \/ \E p \in Pages : notePage(p)
  \/ \E p \in Pages, r \in Requests : addAutomationPageNavigation(p, r)
  \/ \E t \in tasks : requestSizesResolved(t)
  \/ \E t \in tasks : navigationAddsResponse(t)
  \/ \E t \in tasks : responseSizesResolved(t)
  \/ \E t \in tasks : walkSizesResolved(t)
  \/ \E t \in tasks : walkResumes(t)

NavSpec == Init /\ [][NavNext]_vars

\* the lifecycle of the measurers, with the session logger NetworkMeasurer owns
MeasurerNext ==
  \/ Tick
  \/ close
  \/ \E p \in Pages : notePage(p)
  \/ \E m \in Measurers : instrument(m)
  \/ \E m \in Measurers : measurerClose(m)
  \/ collect
  \/ contextClosed

MeasurerSpec == Init /\ [][MeasurerNext]_vars

\* TimingMeasurer.collect against a browser context whose pages open, close
\* under evaluation, and which may close as a whole
TimingNext ==
  \/ \E pageURL \in PageURLs : newPage(pageURL)
  \/ timingCollect
  \/ evaluateResolved
  \/ evaluateRejected
  \/ contextClosed

TimingSpec == Init /\ [][TimingNext]_vars

\* the same, where an evaluation whose in-page promise resolves is answered
\* in the end
TimingFairSpec ==
  /\ TimingSpec
  /\ WF_vars(evaluateResolved)

\* one run of measureURL, for every list of requested kinds
OrchNext ==
  \/ \E requested \in ListsOf(MaxRequested) : measureURL(requested)
  \/ newPageResolved
  \/ \E navRequest \in {"response", "null"} : gotoResolved(navRequest)
  \/ awaitRejected
  \/ dwellElapsed
  \/ settleElapsed
  \/ \E outcome \in {"result", "null", "throw"} : collectReturned(outcome)
  \/ contextCloseResolved
  \/ contextClosedExternally

OrchSpec == Init /\ [][OrchNext]_vars

\* the session logger with callers that obtain and keep its report
ReportNext ==
  \/ close
  \/ \E p \in Pages : notePage(p)
  \/ \E p \in Pages, len \in FrameLengths : addWSRequest(p, len)
  \/ \E p \in Pages, len \in FrameLengths : addWSResponse(p, len)
  \/ toJSONCall
  \/ \E pl \in 1..MaxPageLoggers : pageToJSONCall(pl)
  \/ collect
  \/ hold

ReportSpec == Init /\ [][ReportNext]_vars

\* the command line: one run of runConfigForArgs over the arguments and the
\* file system
ConfigNext ==
  \E args \in Namespaces : \E fs \in FileSystemsFor(args) : cli(args, fs)

ConfigSpec == Init /\ [][ConfigNext]_vars

\* a response event and its redirect walk alone, with close() at any point
WalkNext ==
  \/ close
  \/ \E p \in Pages : notePage(p)
  \/ \E p \in Pages, r \in Requests : addResponse(p, r)
  \/ \E t \in tasks : responseSizesResolved(t)
  \/ \E t \in tasks : walkSizesResolved(t)
  \/ \E t \in tasks : walkResumes(t)

WalkSpec == Init /\ [][WalkNext]_vars

\* the same, where a pending request.sizes() resolves and an awaiting
\* addResponse is resumed in the end
WalkFairSpec ==
  /\ WalkSpec
  /\ WF_vars(\E t \in tasks : responseSizesResolved(t))
  /\ WF_vars(\E t \in tasks : walkSizesResolved(t))
  /\ WF_vars(\E t \in tasks : walkResumes(t))

\* NetworkMeasurer between the orchestrator's close() and collect(): the page
\* and websocket events of its subscriptions, close() and collect() on the
\* measurers
SettleNext ==
  \/ \E m \in Measurers : measurerClose(m)
  \/ \E p \in Pages : notePage(p)
  \/ \E p \in Pages, len \in FrameLengths : addWSRequest(p, len)
  \/ \E p \in Pages, len \in FrameLengths : addWSResponse(p, len)
  \/ collect

SettleSpec == Init /\ [][SettleNext]_vars

\* ---- properties ------------------------------------------------------------
requestsOf(pl) == pageLoggers[pl].requests
responsesOf(pl) == pageLoggers[pl].responses
PageLoggerIds == 1..Len(pageLoggers)

\* the numbers of the calls of the given kinds accepted on page logger pl, in
\* the order they were issued
RECURSIVE issuedOn(_, _, _)
issuedOn(pl, tops, n) ==
  IF n = 0 THEN <<>>
  ELSE IF calls[n].pl = pl /\ calls[n].top \in tops
    THEN Append(issuedOn(pl, tops, n - 1), n)
    ELSE issuedOn(pl, tops, n - 1)

\* the call numbers of the datapoints of seq that calls of these kinds made
RECURSIVE recordedBy(_, _, _)
recordedBy(seq, tops, n) ==
  IF n = 0 THEN <<>>
  ELSE IF calls[seq[n].call].top \in tops
    THEN Append(recordedBy(seq, tops, n - 1), seq[n].call)
    ELSE recordedBy(seq, tops, n - 1)

RequestCalls == {"request", "wsRequest"}
ResponseCalls == {"response", "wsResponse"}

\* the call is suspended at its first await: nothing recorded for it yet
atFirstAwait(c) ==
  \E t \in tasks : t.id = c /\ t.pc \in {"req.sizes", "resp.sizes"}

isPrefix(s, t) == Len(s) <= Len(t) /\ SubSeq(t, 1, Len(s)) = s

\* C1: once the session is closed no datapoint is appended to any page's
\* requests or responses and no page logger is added, under every
\* interleaving of the handlers with close().
C1_NoWriteAfterClose ==
  [][isClosed => pageLoggers' = pageLoggers]_vars

\* close() has just returned true and no record call is suspended: every
\* call issued before it has completed
closedWithNothingPending ==
  /\ out.op = "close"
  /\ out.ret = "true"
  /\ tasks = {}

\* C2 as stated: after close(), every lookup of the calls issued before it
\* resolved, each sequence holds exactly one datapoint per record call, in
\* the order the calls were issued.
C2_ReportInIssueOrder ==
  closedWithNothingPending =>
    \A pl \in PageLoggerIds :
      /\ recordedBy(requestsOf(pl), RequestCalls, Len(requestsOf(pl)))
           = issuedOn(pl, RequestCalls, Len(calls))
      /\ recordedBy(responsesOf(pl), ResponseCalls, Len(responsesOf(pl)))
           = issuedOn(pl, ResponseCalls, Len(calls))

C2_StateInv ==
  \A pl \in PageLoggerIds :
    LET reqIds == recordedBy(requestsOf(pl), RequestCalls,
                             Len(requestsOf(pl)))
        respIds == recordedBy(responsesOf(pl), ResponseCalls,
                              Len(responsesOf(pl)))
    IN
    /\ Cardinality(SeqToSet(reqIds)) = Len(reqIds)
    /\ Cardinality(SeqToSet(respIds)) = Len(respIds)
    /\ SeqToSet(reqIds) =
         {c \in SeqToSet(issuedOn(pl, RequestCalls, Len(calls))) :
            ~atFirstAwait(c)}
    /\ SeqToSet(respIds) =
         {c \in SeqToSet(issuedOn(pl, ResponseCalls, Len(calls))) :
            ~atFirstAwait(c)}
    /\ \A i \in 1..Len(requestsOf(pl)) :
         \/ calls[requestsOf(pl)[i].call].top \in RequestCalls
         \/ /\ calls[requestsOf(pl)[i].call].top = "response"
            /\ redirectedFrom(requestsOf(pl)[i].url) # 0
    /\ \A i \in 1..Len(responsesOf(pl)) :
         calls[responsesOf(pl)[i].call].top \in ResponseCalls

C2_Step ==
  /\ isClosed => calls' = calls
  /\ \A pl \in PageLoggerIds :
       /\ isPrefix(requestsOf(pl), pageLoggers'[pl].requests)
       /\ isPrefix(responsesOf(pl), pageLoggers'[pl].responses)
       /\ Len(pageLoggers'[pl].requests) <= Len(requestsOf(pl)) + 1
       /\ Len(pageLoggers'[pl].responses) <= Len(responsesOf(pl)) + 1

\* C2 (amended): every record call issued before close() has exactly one
\* datapoint of its own once its size lookup has resolved and none before,
\* the only other datapoints are the requests a response's redirect walk
\* adds, each datapoint is appended at the end of its sequence when its call
\* resumes (so the sequences are in completion order, not issue order), and
\* no call is accepted after close().
C2_ReportInCompletionOrder ==
  /\ []C2_StateInv
  /\ [][C2_Step]_vars

\* two requests of one page recorded in the opposite order of their calls
C2_Witness ==
  /\ closedWithNothingPending
  /\ \E pl \in PageLoggerIds :
       /\ Len(requestsOf(pl)) = 2
       /\ requestsOf(pl)[1].call > requestsOf(pl)[2].call
       /\ \A i \in 1..2 : calls[requestsOf(pl)[i].call].top = "request"

\* C3: after NetworkMeasurer.collect() the session logger is closed and the
\* returned data's meta.endTime is set and >= meta.startTime.
C3_CollectClosesSession ==
  out.op = "collect" =>
    /\ isClosed
    /\ out.val.data.meta.endTime # Undefined
    /\ out.val.data.meta.endTime >= out.val.data.meta.startTime

urlsOf(seq) == {seq[i].url : i \in 1..Len(seq)}

\* a response call that returned its datapoint while the session is open
responseReturned ==
  /\ out.op = "addResponse.return"
  /\ ~isClosed

C5_CloseOnce ==
  [][/\ isClosed => isClosed'
     /\ out'.op = "close" =>
          IF isClosed
            THEN out'.ret = "false" /\ endTime' = endTime
            ELSE out'.ret = "true" /\ isClosed' /\ endTime' = now]_vars

\* a second close() at a later time than the first
C5_Witness ==
  /\ out.op = "close"
  /\ out.ret = "false"
  /\ isClosed
  /\ endTime # Undefined
  /\ now > endTime

RecordOps ==
  {"notePage", "addWSRequest", "addWSResponse", "addRequest", "addResponse"}

C7_UnknownPageNavigation ==
  [][(/\ ~isClosed
      /\ out'.op = "addAutomationPageNavigation"
      /\ pageToLoggerMap[out'.p] = 0) =>
       /\ out'.ret = "null"
       /\ out'.errs = 1
       /\ UNCHANGED loggerVars]_vars

\* a navigation for an unknown page while another page is registered
C7_Witness ==
  /\ ~isClosed
  /\ out.op = "addAutomationPageNavigation"
  /\ out.ret = "null"
  /\ pageToLoggerMap[out.p] = 0
  /\ pageLoggers # <<>>

\* C8: a navigation whose request or response record was rejected because
\* the session closed mid-call returns null and leaves no datapoint of its
\* own in any sequence.
C8_NavigationNoOpWhenClosed ==
  (out.op = "addAutomationPageNavigation.return" /\ out.val.rejected) =>
    /\ out.ret = "null"
    /\ \A pl \in PageLoggerIds :
         /\ \A i \in 1..Len(requestsOf(pl)) :
              requestsOf(pl)[i].call # out.call
         /\ \A i \in 1..Len(responsesOf(pl)) :
              responsesOf(pl)[i].call # out.call

\* C9: instrument() on an instrumented measurer throws, and instrumentedAt
\* is never overwritten.
C9_InstrumentOnce ==
  [][/\ \A m \in Measurers :
          instrumentedAt[m] # Undefined =>
            instrumentedAt'[m] = instrumentedAt[m]
     /\ out'.op = "instrument" =>
          (instrumentedAt[out'.m] # Undefined => out'.ret = "throw")]_vars

\* a repeated instrument() at a later time than the first
C9_Witness ==
  /\ out.op = "instrument"
  /\ out.ret = "throw"
  /\ now > instrumentedAt[out.m]

\* C10: close() on a measurer that is not closed returns true and records
\* closedAt; every later close() returns false, logs one error, does not
\* throw and leaves closedAt unchanged, also when it was collect() that
\* closed the measurer before the explicit close().
C10_CloseUnlessClosed ==
  [][out'.op = "measurer.close" =>
       IF closedAt[out'.m] = Undefined
         THEN /\ out'.ret = "true"
              /\ closedAt'[out'.m] = now
         ELSE /\ out'.ret = "false"
              /\ out'.errs = 1
              /\ closedAt'[out'.m] = closedAt[out'.m]]_vars

\* an explicit close() after collect() closed the measurer, at a later time
C10_Witness ==
  /\ out.op = "measurer.close"
  /\ out.ret = "false"
  /\ closedBy[out.m] = "collect"
  /\ now > closedAt[out.m]

TimingOps == {"timing.collect", "timing.evaluate"}

\* C11: TimingMeasurer.collect() called after the context's close signal was
\* delivered returns null, does not throw and evaluates the in-page script
\* on no page (no evaluation is started, nothing else changes).
C11_NullOnClosedContext ==
  [][(isContextClosed["timing"] /\ out'.op = "timing.collect") =>
       /\ out'.ret = "null"
       /\ timingTask' = NoTask
       /\ UNCHANGED <<contextPages, loggerVars, measurerVars>>]_vars

\* collect() on a closed context that still lists a page it would measure
C11_Witness ==
  /\ out.op = "timing.collect"
  /\ out.ret = "null"
  /\ isContextClosed["timing"]
  /\ \E k \in 1..Len(contextPages) : isPublic(contextPages[k])

\* the scheme of a URL: its characters before the first ":"
RECURSIVE schemeOf(_)
schemeOf(str) ==
  IF str = <<>> \/ Head(str) = ":" THEN <<>>
  ELSE <<Head(str)>> \o schemeOf(Tail(str))

PublicSchemes == {<<"h", "t", "t", "p">>, <<"h", "t", "t", "p", "s">>}
hasPublicScheme(pageURL) == schemeOf(pageURL) \in PublicSchemes

\* C12: on an open context the result of TimingMeasurer.collect() has one
\* entry per open page whose URL has the scheme http or https, in the order
\* of context.pages(), and no entry for a page with another scheme.
C12_OneEntryPerPublicPage ==
  (out.op \in TimingOps /\ out.ret = "result") =>
    LET expected == SelectSeq(contextPages, hasPublicScheme) IN
    /\ Len(out.val.data) = Len(expected)
    /\ \A k \in 1..Len(expected) : out.val.data[k] = timingData(expected[k])

\* pages {about:blank, https://x} give one entry, for https://x
C12_Witness ==
  /\ out.op \in TimingOps
  /\ out.ret = "result"
  /\ contextPages = <<AboutBlank, HttpsX>>
  /\ Len(out.val.data) = 1
  /\ out.val.data[1].url = HttpsX

\* C13: the report measureURL returns has an entry for every measurement
\* kind; a kind that was not requested or yielded nothing has the value
\* null and is never absent as a key.
C13_EveryKindInReport ==
  out.op = "measureURL.return" =>
    \A m \in Measurers : out.val.measurements[m] # "absent"

InstanceIds == 1..Len(orch.instances)

\* C15: on every exit path of measureURL, a failed or timed-out navigation
\* included, close() was called on every measurer that was constructed.
C15_CloseOnEveryExit ==
  orch.pc \in {"done", "failed"} =>
    \A i \in InstanceIds : orch.instances[i].closeCalls >= 1

\* C16: when collect() is called on any measurer, close() has been called on
\* every measurer and the settle wait has elapsed; collect() is never called
\* on a measurer that has not been closed.
C16_CloseSettleBeforeCollect ==
  (\E i \in InstanceIds : orch.instances[i].collectCalls > 0) =>
    /\ orch.settled
    /\ \A i \in InstanceIds : orch.instances[i].closeCalls >= 1

C14_NoThrow ==
  out.op \in RecordOps => out.ret # "throw"

\* C18: toJSON of the session logger and of a page logger changes no state of
\* the logger, open or closed, and two calls in a row return the same value.
C18_ToJSONReadOnlyIdempotent ==
  [][/\ out'.op \in {"toJSON", "page.toJSON"} =>
          UNCHANGED <<loggerVars, measurerVars>>
     /\ (out.op = "toJSON" /\ out'.op = "toJSON") => out'.val = out.val
     /\ (out.op = "page.toJSON" /\ out'.op = "page.toJSON"
           /\ out'.p = out.p) => out'.val = out.val]_vars

\* a second toJSON on a closed session with data returns the value of the
\* first, which the caller kept
C18_Witness ==
  /\ out.op = "toJSON"
  /\ held.from = "toJSON"
  /\ out.val = held.snapshot
  /\ isClosed
  /\ \E i \in 1..Len(out.val.pages) : out.val.pages[i].requests # <<>>

\* C19: a report value obtained from toJSON or collect keeps the requests
\* and responses contents it had when it was returned.
C19_ReportIsSnapshot ==
  held.from # "none" => heldContents = held.snapshot

\* C20: the pages array of toJSON grows by exactly the new page logger, at
\* its end, with every successful notePage, and by nothing else; the page
\* loggers listed never change place.
C20_PagesInCreationOrder ==
  [][IF out'.op = "notePage" /\ out'.ret = "pageLogger"
       THEN toJSON'.pages =
              Append(toJSON.pages, pageToJSON(newPageLogger(out'.p)))
       ELSE /\ Len(toJSON'.pages) = Len(toJSON.pages)
            /\ \A i \in 1..Len(toJSON.pages) :
                 toJSON'.pages[i].meta = toJSON.pages[i].meta]_vars

\* a report that lists two page loggers created for the same page
C20_Witness ==
  /\ out.op = "toJSON"
  /\ Len(out.val.pages) = 2
  /\ out.val.pages[1].meta.url = out.val.pages[2].meta.url

\* the page loggers of the session created for page p, by position
loggersOf(p) == {i \in PageLoggerIds : pageLoggers[i].url = p}

C22_ClosedForGood ==
  [](isClosed => []isClosed)

\* a record call, rejected on a session closed earlier, after which the
\* session is still closed
C22_Witness ==
  /\ isClosed
  /\ out.op \in {"addWSRequest", "addWSResponse"}
  /\ out.ret = "null"
  /\ pageLoggers # <<>>

\* the run of runConfigForArgs that has been made, and its parts
hasRun == conf.result # NoVal
isChromiumRun == conf.args.browser \in {"chromium", "brave"}

\* the same arguments succeed once the profile is left empty
validButForProfile ==
  runConfigForArgs([conf.args EXCEPT !.profile = <<>>], conf.fs).ret
    = "return"

\* C23: for browser gecko or webkit, runConfigForArgs with the default
\* profile "Default" and otherwise valid arguments returns a config whose
\* profile is unset; it does not reject the run.
C23_ProfileIgnoredOffChromium ==
  (/\ hasRun
   /\ conf.args.browser \in {"gecko", "webkit"}
   /\ conf.args.profile = DefaultProfile
   /\ validButForProfile)
    => /\ conf.result.ret = "return"
       /\ conf.result.value.profile = NoArg

\* the path given for the user data directory, under either name
suppliedDataDir ==
  IF conf.args.user_data_dir # NoArg THEN conf.args.user_data_dir
  ELSE conf.args.userDataDir

\* the same arguments succeed without a user data directory
validButForDataDir ==
  runConfigForArgs([conf.args EXCEPT !.user_data_dir = NoArg,
                                     !.userDataDir = NoArg], conf.fs).ret
    = "return"

\* C25: for a supplied user-data-dir path, runConfigForArgs returns the path
\* unchanged when it does not exist or when it exists and the browser is not
\* Chromium-family, returns join(path, profile) with the profile set when it
\* exists, the browser is Chromium-family and the profile subdirectory is
\* readable, and throws "Invalid user-data-dir config" in every other case.
C25_UserDataDirCases ==
  (hasRun /\ suppliedDataDir # NoArg /\ validButForDataDir) =>
    LET path == suppliedDataDir
        exists == stat(conf.fs, <<path>>).kind # "none"
        profileReadable ==
          isPathToReadableDir(conf.fs, <<path, conf.args.profile>>)
    IN  IF ~exists \/ ~isChromiumRun
          THEN /\ conf.result.ret = "return"
               /\ conf.result.value.userDataDir = path
        ELSE IF profileReadable
          THEN /\ conf.result.ret = "return"
               /\ conf.result.value.userDataDir
                    = join(<<path, conf.args.profile>>)
               /\ conf.result.value.profile = conf.args.profile
        ELSE /\ conf.result.ret = "throw"
             /\ conf.result.error = "Invalid user-data-dir config"

\* the same arguments succeed without an output path: the result of the run
\* is then the result of handleForResults
validButForOutput ==
  runConfigForArgs([conf.args EXCEPT !.output = NoArg], conf.fs).ret
    = "return"

\* the kinds of output argument, by what is at the path
outputAbsent ==
  conf.args.output = NoArg \/ Len(trim(conf.args.output)) = 0
outputNode == stat(conf.fs, <<conf.args.output>>)
chosenPath == conf.result.value.output.path

\* the cases of C24 other than the writable directory
outputPlainCases ==
  /\ outputAbsent =>
       /\ conf.result.ret = "return"
       /\ conf.result.value.output.stream = "stdout"
  /\ (~outputAbsent /\ outputNode.kind = "file") =>
       IF outputNode.w
         THEN conf.result.ret = "return" /\ chosenPath = <<conf.args.output>>
         ELSE conf.result.ret = "throw"
  /\ (~outputAbsent /\ outputNode.kind = "dir" /\ ~(outputNode.w /\ outputNode.x))
       => conf.result.ret = "throw"
  /\ (~outputAbsent /\ outputNode.kind = "none") =>
       conf.result.ret = "return" /\ chosenPath = <<conf.args.output>>

\* the path is inside the output directory and named from the host name
namedFromHostname(path) ==
  /\ Len(path) = 2
  /\ path[1] = conf.args.output
  /\ path[2][1] = sanitised(conf.args.url.hostname)

\* C24 (as stated): absent or blank output gives STDOUT; an existing file is
\* chosen if writable and is an error if not; a directory gives a new file
\* inside it named from the URL hostname if it is writable and an error if
\* not; any other path is chosen as it is.
C24_OutputTable ==
  (hasRun /\ validButForOutput) =>
    /\ outputPlainCases
    /\ (~outputAbsent /\ outputNode.kind = "dir"
          /\ outputNode.w /\ outputNode.x) =>
         /\ conf.result.ret = "return"
         /\ namedFromHostname(chosenPath)
         /\ stat(conf.fs, chosenPath).kind = "none"

\* the entry of the output directory at the name of one attempt
attemptKind(a) ==
  stat(conf.fs, <<conf.args.output,
                  fileGuessOf(sanitised(conf.args.url.hostname), a)>>).kind

\* C24: as stated, but in a writable directory the path chosen is the first
\* of the attemptMax names made from the URL hostname that is not an
\* existing file; the call fails when every such name is an existing file
\* or when the first that is none cannot be opened for writing. No existing
\* file is chosen in the directory case.
C24_OutputTableWithAttempts ==
  (hasRun /\ validButForOutput) =>
    /\ outputPlainCases
    /\ (~outputAbsent /\ outputNode.kind = "dir"
          /\ outputNode.w /\ outputNode.x) =>
         IF conf.result.ret = "return"
           THEN /\ namedFromHostname(chosenPath)
                /\ chosenPath[2][2] \in 0..(attemptMax - 1)
                /\ stat(conf.fs, chosenPath).kind = "none"
                /\ \A a \in 0..(chosenPath[2][2] - 1) :
                     attemptKind(a) = "file"
           ELSE LET notFiles == {a \in 0..(attemptMax - 1) :
                                   attemptKind(a) # "file"}
                IN  \/ notFiles = {}
                    \/ \E a \in notFiles :
                         /\ attemptKind(a) # "none"
                         /\ \A b \in 0..(a - 1) : b \notin notFiles

\* a run whose output directory already holds the file of the first attempt:
\* the file of the second attempt is chosen
C24_Witness ==
  /\ hasRun
  /\ conf.result.ret = "return"
  /\ outputNode.kind = "dir"
  /\ conf.fs.first = <<"file">>
  /\ chosenPath[2][2] = 1

\* the addResponse calls that are in their redirect walk
walkTasks ==
  {t \in tasks : t.top = "response" /\ t.pc \in {"walk.sizes", "walk.ret"}}

\* the URLs of the request datapoints that the call of task t has pushed
walkedBy(t) ==
  {requestsOf(t.pl)[i].url :
     i \in {j \in 1..Len(requestsOf(t.pl)) :
              requestsOf(t.pl)[j].call = t.id}}

\* the requests of the chain whose iteration the walk of t has been through:
\* those before the loop variable, and the loop variable once its addRequest
\* has returned
reachedBy(t) ==
  LET chain == chainOf(t.resp)
      k == CHOOSE i \in 1..Len(chain) : chain[i] = t.req
  IN  {chain[i] : i \in 1..(IF t.pc = "walk.ret" THEN k ELSE k - 1)}

liveOn(pl) ==
  {calls[requestsOf(pl)[i].call].req :
     i \in {j \in 1..Len(requestsOf(pl)) :
              calls[requestsOf(pl)[j].call].top = "request"}}

\* how often the URL of request r is in the requests of page logger pl
timesIn(pl, r) ==
  Cardinality({i \in 1..Len(requestsOf(pl)) :
                 requestsOf(pl)[i].url = urlOf(r)})

\* how often call c pushed the URL of request r on page logger pl
timesBy(pl, r, c) ==
  Cardinality({i \in 1..Len(requestsOf(pl)) :
                 /\ requestsOf(pl)[i].url = urlOf(r)
                 /\ requestsOf(pl)[i].call = c})

grownAtEnd(seq, next, call) ==
  \/ next = seq
  \/ /\ Len(next) = Len(seq) + 1
     /\ SubSeq(next, 1, Len(seq)) = seq
     /\ next[Len(next)].call = call

pushedBy(c) ==
  {requestsOf(calls[c].pl)[i].url :
     i \in {j \in 1..Len(requestsOf(calls[c].pl)) :
              requestsOf(calls[c].pl)[j].call = c}}

\* the hops of the walk of a response to request r: the requests of the
\* chain that have a predecessor, one per iteration
hopsOf(r) == {q \in SeqToSet(chainOf(r)) : walkContinues(q)}

hopsLeft(t) == Cardinality(hopsOf(t.req))

\* C30: the walk makes one iteration per hop, in chain order, whether the
\* hop's addRequest records or is rejected on a closed session, and then
\* addResponse returns the response datapoint; every addResponse call that
\* was accepted returns.
C30_WalkTerminates ==
  /\ [][\A t \in tasks :
          \/ t \in tasks'
          \/ /\ t.pc = "resp.sizes"
             /\ IF hopsOf(t.resp) = {}
                  THEN out' = returned(t) /\ out'.ret = "datapoint"
                  ELSE \E u \in tasks' :
                         /\ u.id = t.id /\ u.req = t.resp
                         /\ u.pc \in {"walk.sizes", "walk.ret"}
          \/ /\ t.pc = "walk.sizes"
             /\ \E u \in tasks' :
                  u.id = t.id /\ u.req = t.req /\ u.pc = "walk.ret"
          \/ /\ t.pc = "walk.ret"
             /\ IF hopsLeft(t) = 1
                  THEN /\ out'.op = "addResponse.return"
                       /\ out'.ret = "datapoint"
                       /\ out'.val = responseDatapoint(t.resp, t.id)
                       /\ \A u \in tasks' : u.id # t.id
                  ELSE \E u \in tasks' :
                         /\ u.id = t.id
                         /\ u.pc \in {"walk.sizes", "walk.ret"}
                         /\ u.req = redirectedFrom(t.req)
                         /\ hopsLeft(u) = hopsLeft(t) - 1]_vars
  /\ \A c \in 1..MaxCalls :
       (\E t \in tasks : t.id = c) ~> (\A t \in tasks : t.id # c)

\* a response with two hops returned its datapoint after the session was
\* closed during the walk: the first hop is recorded, the second was
\* rejected
C30_Witness ==
  /\ out.op = "addResponse.return"
  /\ out.ret = "datapoint"
  /\ isClosed
  /\ Cardinality(hopsOf(calls[out.call].req)) = 2
  /\ pushedBy(out.call) = {urlOf(calls[out.call].req)}

\* C31: once close() has returned on the NetworkMeasurer, no later event
\* changes the report its collect() returns: no page and no datapoint is
\* added.
C31_NothingAfterMeasurerClose ==
  [][(closedAt["network"] # Undefined /\ closedBy["network"] = "close") =>
       toJSON' = toJSON]_vars

\* C32: the first instrument() call on a measurer after its construction
\* (the measurer holds the one context "close" listener of its construction)
\* does not throw and sets instrumentedAt to the time of the call.
C32_FirstInstrumentSucceeds ==
  [][(out'.op = "instrument" /\ closeListeners[out'.m] = 1) =>
       /\ out'.ret = "undefined"
       /\ instrumentedAt'[out'.m] = now]_vars

\* the step recorded one websocket datapoint at the end of `grown` of one
\* page logger that a page maps to, and left `kept` of every page logger
\* and `grown` of every other page logger as they were
routedTo(grown, kept) ==
  LET pl == calls'[out'.call].pl IN
  /\ out'.val.type = "websocket"
  /\ \E p \in Pages : pageToLoggerMap[p] = pl
  /\ Len(pageLoggers') = Len(pageLoggers)
  /\ pageLoggers'[pl][grown] = Append(pageLoggers[pl][grown], out'.val)
  /\ \A other \in PageLoggerIds :
       /\ pageLoggers'[other][kept] = pageLoggers[other][kept]
       /\ other # pl => pageLoggers'[other][grown] = pageLoggers[other][grown]

C34_EndTimeIffClosed ==
  /\ (endTime # Undefined) <=> isClosed
  /\ endTime # Undefined => endTime >= startTime

\* the session was closed at a time after its creation
C34_Witness ==
  /\ isClosed
  /\ endTime > startTime
  /\ out.op = "close"

\* C35: a TimingMeasurer.collect() call that is waiting for the in-page
\* script of a page on an open context returns (or throws) in the end, as
\* long as the context stays open.
C35_CollectReturns ==
  (timingTask.pc = "evaluate" /\ ~isContextClosed["timing"])
    ~> (timingTask.pc = "idle" \/ isContextClosed["timing"])

\* C36: when measureURL returns, close() was called exactly once and
\* collect() exactly once on every measurer it constructed and instrumented,
\* for every list of requested kinds: none is left subscribed and open.
C36_EachClosedAndCollectedOnce ==
  orch.pc = "done" =>
    \A i \in InstanceIds :
      orch.instances[i].instrumented =>
        /\ orch.instances[i].closeCalls = 1
        /\ orch.instances[i].collectCalls = 1
        /\ orch.instances[i].closed

\* C37: the context goes from open to closed either from outside or by the
\* `context.close()` of measureURL, and that one comes after collect() was
\* called and has returned on every measurer measureURL constructed and is
\* followed by no collect() call: a collect() call finds the context closed
\* only after a close from outside.
C37_ContextClosedAfterCollects ==
  [][/\ (~orch.contextClosed /\ orch'.contextClosed) =>
          \/ out'.op = "context.close"
          \/ /\ out'.op = "measureURL.return"
             /\ orch.pc = "contextClose"
             /\ \A i \in InstanceIds : orch.instances[i].collectCalls >= 1
     /\ orch.pc = "done" => orch' = orch]_vars

\* C38: an instrument() call that throws leaves the measurer as it was: the
\* number of context "close" listeners it registered, instrumentedAt,
\* closedAt and isContextClosed are unchanged.
C38_RejectedInstrumentChangesNothing ==
  [][(out'.op = "instrument" /\ out'.ret = "throw") =>
       UNCHANGED <<closeListeners, instrumentedAt, closedAt,
                   isContextClosed>>]_vars
====
